---------------------------- MODULE Spec2Model ----------------------------
(***************************************************************************)
(* Model of the astrb emitters (src/src/emitters): the Emitter trait's     *)
(* `emit(&self) -> String` implementations over the syntax tree of         *)
(* src/src/ast.rs.                                                         *)
(*                                                                         *)
(* A Rust String is modelled as a sequence of one-character strings, so    *)
(* that concatenation, joining, prefixes and character classes are all     *)
(* computed rather than assumed.  An enum value is a record whose `tag`    *)
(* field is the variant name and whose other fields are the payload.       *)
(***************************************************************************)
EXTENDS Integers, Sequences, FiniteSets, TLC

(***************************************************************************)
(* Bounds of the model.                                                    *)
(***************************************************************************)
\* longest Vec<_> field (segments, elements, options) that is enumerated
MaxLen == 2

(***************************************************************************)
(* Strings.                                                                *)
(***************************************************************************)
SeqsUpTo(S, n) == UNION {[1..k -> S] : k \in 0..n}

RECURSIVE JoinReversed(_, _)
\* The items in reverse sequence order with sep between them.
JoinReversed(texts, sep) ==
    IF texts = <<>> THEN <<>>
    ELSE IF Len(texts) = 1 THEN texts[1]
    ELSE JoinReversed(Tail(texts), sep) \o sep \o Head(texts)

RECURSIVE Join(_, _)
\* [String]::join(sep): the items in sequence order with sep between
\* consecutive items.
Join(texts, sep) ==
    IF texts = <<>> THEN <<>>
    ELSE IF Len(texts) = 1 THEN texts[1]
    ELSE Head(texts) \o sep \o Join(Tail(texts), sep)

\* The character U+0060 (a TLA+ string cannot contain it): one character
\* of the text, distinct from every other character.
GraveAccent == "U+0060"

DigitChar(d) == <<"0", "1", "2", "3", "4", "5", "6", "7", "8", "9">>[d + 1]

RECURSIVE NatToString(_)
NatToString(n) ==
    IF n < 10 THEN <<DigitChar(n)>>
    ELSE NatToString(n \div 10) \o <<DigitChar(n % 10)>>

\* <i64 as Display>::fmt: a minus sign for a negative value, then the
\* decimal digits of the magnitude, no leading zeros.
I64ToString(i) ==
    IF i < 0 THEN <<"-">> \o NatToString(-i) ELSE NatToString(i)

(***************************************************************************)
(* Syntax tree values that are enumerated.                                 *)
(***************************************************************************)
\* Constant(String) payloads
ConstantNames == {<<"A">>, <<"B">>, <<"C", "d">>}

\* Variable(String) payloads
VariableNames == {<<"x">>, <<"f", "o", "o">>}

\* IntegerLiteral(i64) payloads
IntegerValues == {-12, 0, 1, 5, 10}

SpecialGlobalTags ==
    {"Colon", "Splat", "QuestionMark", "Dollar", "Tilde", "Ampersand",
     "Plus", "Backtick", "Aposthrope", "Bang", "AtSymbol"}

GlobalVariableSet ==
    {[tag |-> "Plain", v |-> n] : n \in VariableNames}
    \cup {[tag |-> "NthReference", i |-> i] : i \in IntegerValues}
    \cup {[tag |-> t] : t \in SpecialGlobalTags}

ConstantVariantsSet ==
    {[tag |-> "TopLevel", c |-> n] : n \in ConstantNames}
    \cup {[tag |-> "Scoped", vc |-> vc] : vc \in SeqsUpTo(ConstantNames, MaxLen + 1)}
    \cup {[tag |-> "Unscoped", c |-> n] : n \in ConstantNames}
    \cup {[tag |-> t] : t \in {"File", "Line", "Encoding"}}

AccessVariantsSet ==
    {[tag |-> "_Self"]}
    \cup {[tag |-> t, v |-> n] :
            t \in {"LocalVariable", "InstanceVariable", "ClassVariable"},
            n \in VariableNames}
    \cup {[tag |-> "GlobalVariable", g |-> g] : g \in GlobalVariableSet}
    \cup {[tag |-> "Constant", c |-> c] : c \in ConstantVariantsSet}

(***************************************************************************)
(* emitters/access.rs                                                      *)
(***************************************************************************)
\* constant_variants with the segments of Scoped joined by a single colon.
constant_variants_single_colon(c) ==
    CASE c.tag = "Encoding" ->
            <<"_", "_", "E", "N", "C", "O", "D", "I", "N", "G", "_", "_">>
      [] c.tag = "File" -> <<"_", "_", "F", "I", "L", "E", "_", "_">>
      [] c.tag = "Line" -> <<"_", "_", "L", "I", "N", "E", "_", "_">>
      [] c.tag = "Scoped" -> Join(c.vc, <<":">>)
      [] c.tag = "TopLevel" -> <<":", ":">> \o c.c
      [] c.tag = "Unscoped" -> c.c

constant_variants(c) ==
    CASE c.tag = "Encoding" ->
            <<"_", "_", "E", "N", "C", "O", "D", "I", "N", "G", "_", "_">>
      [] c.tag = "File" -> <<"_", "_", "F", "I", "L", "E", "_", "_">>
      [] c.tag = "Line" -> <<"_", "_", "L", "I", "N", "E", "_", "_">>
      [] c.tag = "Scoped" -> Join(c.vc, <<":", ":">>)
      [] c.tag = "TopLevel" -> <<":", ":">> \o c.c
      [] c.tag = "Unscoped" -> c.c

\* global_variables with Bang and AtSymbol sharing one spelling.
global_variables_shared_spelling(g) ==
    CASE g.tag = "Ampersand" -> <<"$", "&">>
      [] g.tag = "Aposthrope" -> <<"$", "'">>
      [] g.tag = "AtSymbol" -> <<"$", "!">>
      [] g.tag = "Backtick" -> <<"$", GraveAccent>>
      [] g.tag = "Bang" -> <<"$", "!">>
      [] g.tag = "Colon" -> <<"$", ":">>
      [] g.tag = "Dollar" -> <<"$", "$">>
      [] g.tag = "NthReference" -> <<"$">> \o I64ToString(g.i)
      [] g.tag = "Plain" -> <<"$">> \o g.v
      [] g.tag = "Plus" -> <<"$", "+">>
      [] g.tag = "QuestionMark" -> <<"$", "?">>
      [] g.tag = "Splat" -> <<"$", "*">>
      [] g.tag = "Tilde" -> <<"$", "~">>

global_variables(g) ==
    CASE g.tag = "Ampersand" -> <<"$", "&">>
      [] g.tag = "Aposthrope" -> <<"$", "'">>
      [] g.tag = "AtSymbol" -> <<"$", "@">>
      [] g.tag = "Backtick" -> <<"$", GraveAccent>>
      [] g.tag = "Bang" -> <<"$", "!">>
      [] g.tag = "Colon" -> <<"$", ":">>
      [] g.tag = "Dollar" -> <<"$", "$">>
      [] g.tag = "NthReference" -> <<"$">> \o I64ToString(g.i)
      [] g.tag = "Plain" -> <<"$">> \o g.v
      [] g.tag = "Plus" -> <<"$", "+">>
      [] g.tag = "QuestionMark" -> <<"$", "?">>
      [] g.tag = "Splat" -> <<"$", "*">>
      [] g.tag = "Tilde" -> <<"$", "~">>

\* <Access as Emitter>::emit
AccessEmit(a) ==
    CASE a.tag = "ClassVariable" -> <<"@", "@">> \o a.v
      [] a.tag = "Constant" -> constant_variants(a.c)
      [] a.tag = "GlobalVariable" -> global_variables(a.g)
      [] a.tag = "InstanceVariable" -> <<"@">> \o a.v
      [] a.tag = "LocalVariable" -> a.v
      [] a.tag = "_Self" -> <<"s", "e", "l", "f">>

(***************************************************************************)
(* emitters/expression.rs                                                  *)
(***************************************************************************)
\* <Expression as Emitter>::emit: the empty String for every expression,
\* whatever its variant.
ExpressionEmit(e) == <<>>

(***************************************************************************)
(* emitters/literals.rs                                                    *)
(***************************************************************************)
\* <f64 as Display>::fmt on the values enumerated here, which are the
\* multiples of one half: sign, integral digits, and ".5" when the value
\* is not integral (1.0 prints as "1").
F64ToString(f) ==
    (IF f.neg THEN <<"-">> ELSE <<>>)
        \o NatToString(f.whole)
        \o (IF f.half THEN <<".", "5">> ELSE <<>>)

\* Characters matched by the class [0-9a-zA-Z].
AlphanumericChars ==
    {"0", "1", "2", "3", "4", "5", "6", "7", "8", "9"}
    \cup {"a", "b", "c", "d", "e", "f", "g", "h", "i", "j", "k", "l", "m",
          "n", "o", "p", "q", "r", "s", "t", "u", "v", "w", "x", "y", "z"}
    \cup {"A", "B", "C", "D", "E", "F", "G", "H", "I", "J", "K", "L", "M",
          "N", "O", "P", "Q", "R", "S", "T", "U", "V", "W", "X", "Y", "Z"}

\* PROP_SYMBOL.is_match(s) for the pattern [^0-9a-zA-Z]: some character of
\* s is outside the class.
PROP_SYMBOL_is_match(s) ==
    \E k \in 1..Len(s) : s[k] \notin AlphanumericChars

symbol_quote(s) ==
    IF PROP_SYMBOL_is_match(s) THEN <<"{">> \o s \o <<"}">> ELSE s

SingletonEmit(var) ==
    CASE var.tag = "False" -> <<"f", "a", "l", "s", "e">>
      [] var.tag = "True" -> <<"t", "r", "u", "e">>
      [] var.tag = "Nil" -> <<"n", "i", "l">>

RegularExpressionFlagCode(fl) ==
    CASE fl = "E" -> <<"e">>
      [] fl = "I" -> <<"i">>
      [] fl = "M" -> <<"m">>
      [] fl = "N" -> <<"n">>
      [] fl = "U" -> <<"u">>
      [] fl = "X" -> <<"x">>

RECURSIVE RegularExpressionFlags(_)
\* options.iter().fold(String::new(), |opts, fl| opts + code(fl))
RegularExpressionFlags(options) ==
    IF Len(options) = 0 THEN <<>>
    ELSE RegularExpressionFlags(SubSeq(options, 1, Len(options) - 1))
            \o RegularExpressionFlagCode(options[Len(options)])

\* RangeValEmit with the two operators exchanged.
RangeValEmit_swapped_operators(r) ==
    CASE r.tag = "Exclusive" ->
            I64ToString(r.i) \o <<".", ".">>
                \o (IF r.si.tag = "Some" THEN I64ToString(r.si.int) ELSE <<>>)
      [] r.tag = "Inclusive" ->
            I64ToString(r.i) \o <<".", ".", ".">>
                \o (IF r.si.tag = "Some" THEN I64ToString(r.si.int) ELSE <<>>)

\* <RangeVal as Emitter>::emit
RangeValEmit(r) ==
    CASE r.tag = "Exclusive" ->
            I64ToString(r.i) \o <<".", ".", ".">>
                \o (IF r.si.tag = "Some" THEN I64ToString(r.si.int) ELSE <<>>)
      [] r.tag = "Inclusive" ->
            I64ToString(r.i) \o <<".", ".">>
                \o (IF r.si.tag = "Some" THEN I64ToString(r.si.int) ELSE <<>>)

RECURSIVE LiteralsEmit(_)
RECURSIVE StringValEmit(_)
RECURSIVE InterpolateFold(_)
RECURSIVE string_interpolate(_)
RECURSIVE ArrayValEmit(_)
RECURSIVE array_expression(_)
RECURSIVE HashValEmit(_)
RECURSIVE hash_element(_)
RECURSIVE hash_expression(_)

\* <StringVal as Emitter>::emit
StringValEmit(s) ==
    CASE s.tag = "Static" -> s.s
      [] s.tag = "WithInterpolation" -> InterpolateFold(s.v)

\* v.iter().fold(String::new(), |buff, exp| buff + string_interpolate(exp))
InterpolateFold(v) ==
    IF Len(v) = 0 THEN <<>>
    ELSE InterpolateFold(SubSeq(v, 1, Len(v) - 1))
            \o string_interpolate(v[Len(v)])

string_interpolate(exp) ==
    IF exp.tag = "Literal"
    THEN IF exp.l.tag = "String"
         THEN StringValEmit(exp.l.s)
         ELSE <<"#", "{">> \o LiteralsEmit(exp.l) \o <<"}">>
    ELSE <<"#", "{">> \o ExpressionEmit(exp) \o <<"}">>

\* <SymVal as Emitter>::emit
SymValEmit(s) ==
    CASE s.tag = "Static" -> symbol_quote(s.s)
      [] s.tag = "WithInterpolation" ->
            <<"\"">> \o InterpolateFold(s.v) \o <<"\"">>

\* <HereDoc as Emitter>::emit
HereDocEmit(hd) ==
    CASE hd.tag = "Plain" ->
            <<"<", "<">> \o hd.enclosure
                \o StringValEmit(hd.document) \o hd.enclosure
      [] hd.tag = "Dash" ->
            <<"<", "<", "-">> \o hd.enclosure \o <<"\n">>
                \o StringValEmit(hd.document) \o <<"\n">> \o hd.enclosure
      [] hd.tag = "Squiggly" ->
            <<"<", "~">> \o hd.enclosure \o <<"\n">>
                \o StringValEmit(hd.document) \o <<"\n">> \o hd.enclosure

\* <RegularExpression as Emitter>::emit
RegularExpressionEmit(rgx) ==
    <<"/">> \o StringValEmit(rgx.expression) \o <<"/">>
        \o RegularExpressionFlags(rgx.options)

\* ArrayValEmit with the elements of an interpolated array collected in
\* reverse.
ArrayValEmit_reversed(arr) ==
    CASE arr.tag = "Plain" ->
            <<"[">>
                \o Join([k \in 1..Len(arr.vexp) |-> ExpressionEmit(arr.vexp[k])],
                        <<",", " ">>)
                \o <<"]">>
      [] arr.tag = "Splat" -> array_expression(arr.aexp)
      [] arr.tag = "WithInterpolation" ->
            <<"[">>
                \o JoinReversed([k \in 1..Len(arr.vaip) |->
                            IF arr.vaip[k].tag = "Expression"
                            THEN ExpressionEmit(arr.vaip[k].exp)
                            ELSE array_expression(arr.vaip[k].aexp)],
                        <<",", " ">>)
                \o <<"]">>

\* <ArrayVal as Emitter>::emit
ArrayValEmit(arr) ==
    CASE arr.tag = "Plain" ->
            <<"[">>
                \o Join([k \in 1..Len(arr.vexp) |-> ExpressionEmit(arr.vexp[k])],
                        <<",", " ">>)
                \o <<"]">>
      [] arr.tag = "Splat" -> array_expression(arr.aexp)
      [] arr.tag = "WithInterpolation" ->
            <<"[">>
                \o Join([k \in 1..Len(arr.vaip) |->
                            IF arr.vaip[k].tag = "Expression"
                            THEN ExpressionEmit(arr.vaip[k].exp)
                            ELSE array_expression(arr.vaip[k].aexp)],
                        <<",", " ">>)
                \o <<"]">>

array_expression(aexp) ==
    <<"*">> \o (CASE aexp.tag = "Access" -> AccessEmit(aexp.av)
                  [] aexp.tag = "Literal" -> ArrayValEmit(aexp.al))

\* <HashVal as Emitter>::emit
HashValEmit(h) ==
    <<"{", "\n">>
        \o (CASE h.tag = "Plain" ->
                    Join([k \in 1..Len(h.vh) |-> hash_element(h.vh[k])],
                         <<",", " ">>)
              [] h.tag = "Splat" -> hash_expression(h.sxp)
              [] h.tag = "WithInterpolation" ->
                    Join([k \in 1..Len(h.hwp) |->
                            IF h.hwp[k].tag = "Element"
                            THEN hash_element(h.hwp[k].elt)
                            ELSE hash_expression(h.hwp[k].exp)],
                         <<",", " ">>))
        \o <<"\n", "}">>

\* hash_element with a labelled element rendered with the pair arrow.
hash_element_label_as_pair(elt) ==
    CASE elt.tag = "Pair" ->
            ExpressionEmit(elt.key) \o <<" ", "=", ">", " ">>
                \o ExpressionEmit(elt.value)
      [] elt.tag = "WithLabel" ->
            StringValEmit(elt.key) \o <<" ", "=", ">", " ">>
                \o ExpressionEmit(elt.value)

hash_element(elt) ==
    CASE elt.tag = "Pair" ->
            ExpressionEmit(elt.key) \o <<" ", "=", ">", " ">>
                \o ExpressionEmit(elt.value)
      [] elt.tag = "WithLabel" ->
            StringValEmit(elt.key) \o <<":", " ">> \o ExpressionEmit(elt.value)

hash_expression(exp) ==
    <<"*", "*">> \o (CASE exp.tag = "Access" -> AccessEmit(exp.acc)
                       [] exp.tag = "Literal" -> HashValEmit(exp.hl))

\* <Literals as Emitter>::emit
LiteralsEmit(l) ==
    CASE l.tag = "Singleton" -> SingletonEmit(l.var)
      [] l.tag = "Integer" -> I64ToString(l.i)
      [] l.tag = "Float" -> F64ToString(l.f)
      [] l.tag = "Complex" -> F64ToString(l.c) \o <<"i">>
      [] l.tag = "Rational" -> F64ToString(l.r)
      [] l.tag = "String" -> <<"\"">> \o StringValEmit(l.s) \o <<"\"">>
      [] l.tag = "Symbol" -> <<":">> \o SymValEmit(l.s)
      [] l.tag = "HereDocument" -> HereDocEmit(l.hd)
      [] l.tag = "ExecuteString" ->
            <<GraveAccent>> \o StringValEmit(l.s) \o <<GraveAccent>>
      [] l.tag = "RegularExpression" -> RegularExpressionEmit(l.rgx)
      [] l.tag = "Array" -> ArrayValEmit(l.arr)
      [] l.tag = "Hash" -> HashValEmit(l.h)
      [] l.tag = "Range" -> RangeValEmit(l.r)

(***************************************************************************)
(* Literal and expression values that are enumerated.                      *)
(***************************************************************************)
None == [tag |-> "None"]
Some(int) == [tag |-> "Some", int |-> int]

Static(s) == [tag |-> "Static", s |-> s]
WithInterpolation(v) == [tag |-> "WithInterpolation", v |-> v]

Literal(l) == [tag |-> "Literal", l |-> l]
Access(a) == [tag |-> "Access", a |-> a]

IntegerLit(i) == [tag |-> "Integer", i |-> i]
StringLit(s) == [tag |-> "String", s |-> s]

\* String payloads
StaticTexts ==
    {<<>>,
     <<"f", "o", "o">>,
     <<"a", "1">>,
     <<"f", "o", "o", "_", "b", "a", "r">>,
     <<"f", "o", "o", " ", "b", "a", "r">>}

\* f64 payloads: (-1)^neg * (whole + half / 2)
FloatValues ==
    {[neg |-> FALSE, whole |-> 1, half |-> FALSE],
     [neg |-> FALSE, whole |-> 0, half |-> TRUE],
     [neg |-> TRUE, whole |-> 12, half |-> TRUE]}

\* Expression variants that are neither Literal nor Access
OtherExpressions ==
    {[tag |-> "Return", e |-> None],
     [tag |-> "BEGINBlock", body |-> <<>>],
     [tag |-> "Assignment",
      asg |-> [tag |-> "ToLocalVariable", v |-> <<"x">>,
               e |-> Literal(IntegerLit(1))]]}

InstanceVariableX == [tag |-> "InstanceVariable", v |-> <<"x">>]
LocalVariableFoo == [tag |-> "LocalVariable", v |-> <<"f", "o", "o">>]

\* Expressions used as segments of an interpolated string
SegmentExpressions ==
    {Literal(StringLit(Static(<<"f", "o", "o">>))),
     Literal(StringLit(WithInterpolation(<<Literal(IntegerLit(5))>>))),
     Literal(IntegerLit(-12)),
     Access(InstanceVariableX),
     [tag |-> "Return", e |-> None]}

StringLiteralSet ==
    {Static(s) : s \in StaticTexts}
    \cup {WithInterpolation(v) : v \in SeqsUpTo(SegmentExpressions, MaxLen)}

\* StringLiteral values used inside heredocs, regular expressions and labels
FewStringLiterals ==
    {Static(<<"a", "1">>),
     Static(<<"f", "o", "o", " ", "b", "a", "r">>),
     WithInterpolation(<<Literal(StringLit(Static(<<"f", "o", "o">>))),
                         Literal(IntegerLit(1))>>)}

HereDocumentVariantsSet ==
    {[tag |-> t, enclosure |-> n, document |-> d] :
        t \in {"Plain", "Dash", "Squiggly"},
        n \in {<<"E", "O", "S">>, <<"A">>},
        d \in FewStringLiterals}

RegularExpressionFlagSet == {"E", "I", "M", "N", "U", "X"}

RegularExpressionSet ==
    {[expression |-> e, options |-> o] :
        e \in FewStringLiterals,
        o \in SeqsUpTo(RegularExpressionFlagSet, MaxLen)}

RangeLiteralSet ==
    {[tag |-> t, i |-> i, si |-> si] :
        t \in {"Inclusive", "Exclusive"},
        i \in IntegerValues,
        si \in {None} \cup {Some(j) : j \in IntegerValues}}

\* Expressions used as elements of arrays and as keys and values of hashes
ElementExpressions ==
    {Literal(IntegerLit(1)),
     Literal(StringLit(Static(<<"f", "o", "o">>))),
     Access(InstanceVariableX)}

PlainArrays ==
    {[tag |-> "Plain", vexp |-> v] : v \in SeqsUpTo(ElementExpressions, MaxLen)}

ArrayExpressionSet ==
    {[tag |-> "Access", av |-> LocalVariableFoo],
     [tag |-> "Access", av |-> InstanceVariableX],
     [tag |-> "Literal",
      al |-> [tag |-> "Plain",
              vexp |-> <<Literal(IntegerLit(1)), Access(InstanceVariableX)>>]],
     [tag |-> "Literal",
      al |-> [tag |-> "Splat", aexp |-> [tag |-> "Access", av |-> LocalVariableFoo]]]}

ArrayInterpolationSet ==
    {[tag |-> "Expression", exp |-> e] : e \in ElementExpressions}
    \cup {[tag |-> "Splat", aexp |-> a] : a \in ArrayExpressionSet}

ArrayLiteralSet ==
    PlainArrays
    \cup {[tag |-> "Splat", aexp |-> a] : a \in ArrayExpressionSet}
    \cup {[tag |-> "WithInterpolation", vaip |-> v] :
            v \in SeqsUpTo(ArrayInterpolationSet, MaxLen)}

HashElementSet ==
    {[tag |-> "Pair", key |-> k, value |-> Literal(IntegerLit(1))] :
        k \in {Literal(StringLit(Static(<<"f", "o", "o">>))),
               Access(InstanceVariableX)}}
    \cup {[tag |-> "WithLabel", key |-> k, value |-> Access(InstanceVariableX)] :
            k \in {Static(<<"a", "1">>), Static(<<"f", "o", "o">>)}}

HashExpressionSet ==
    {[tag |-> "Access", acc |-> LocalVariableFoo],
     [tag |-> "Access", acc |-> InstanceVariableX],
     [tag |-> "Literal",
      hl |-> [tag |-> "Plain",
              vh |-> <<[tag |-> "WithLabel", key |-> Static(<<"a", "1">>),
                        value |-> Literal(IntegerLit(1))]>>]],
     [tag |-> "Literal",
      hl |-> [tag |-> "Splat", sxp |-> [tag |-> "Access", acc |-> LocalVariableFoo]]]}

HashInterpolationSet ==
    {[tag |-> "Element", elt |-> e] : e \in HashElementSet}
    \cup {[tag |-> "Splat", exp |-> x] : x \in HashExpressionSet}

HashLiteralSet ==
    {[tag |-> "Plain", vh |-> v] : v \in SeqsUpTo(HashElementSet, MaxLen)}
    \cup {[tag |-> "Splat", sxp |-> x] : x \in HashExpressionSet}
    \cup {[tag |-> "WithInterpolation", hwp |-> v] :
            v \in SeqsUpTo(HashInterpolationSet, MaxLen)}

SingletonVariantsSet == {[tag |-> t] : t \in {"True", "False", "Nil"}}

ValueVariantsSet ==
    {[tag |-> "Singleton", var |-> v] : v \in SingletonVariantsSet}
    \cup {IntegerLit(i) : i \in IntegerValues}
    \cup {[tag |-> "Float", f |-> f] : f \in FloatValues}
    \cup {[tag |-> "Complex", c |-> f] : f \in FloatValues}
    \cup {[tag |-> "Rational", r |-> f] : f \in FloatValues}
    \cup {StringLit(s) : s \in StringLiteralSet}
    \cup {[tag |-> "Symbol", s |-> s] : s \in StringLiteralSet}
    \cup {[tag |-> "HereDocument", hd |-> hd] : hd \in HereDocumentVariantsSet}
    \cup {[tag |-> "ExecuteString", s |-> s] : s \in StringLiteralSet}
    \cup {[tag |-> "RegularExpression", rgx |-> r] : r \in RegularExpressionSet}
    \cup {[tag |-> "Array", arr |-> a] : a \in ArrayLiteralSet}
    \cup {[tag |-> "Hash", h |-> h] : h \in HashLiteralSet}
    \cup {[tag |-> "Range", r |-> r] : r \in RangeLiteralSet}

ExpressionSet ==
    {Literal(l) : l \in ValueVariantsSet}
    \cup {Access(a) : a \in AccessVariantsSet}
    \cup OtherExpressions

(***************************************************************************)
(* The program: a caller holds a borrowed tree node wrapped in one of the  *)
(* emitter structs and calls emit on it once; the call returns a String.   *)
(***************************************************************************)
VARIABLES
    wrapper,    \* the emitter struct wrapping the node
    node,       \* the borrowed syntax tree node
    pc,         \* "ready" before the call, "returned" once it has returned
                \* its String ("failed" would be a call that ended in an
                \* error instead: emit returns String, not Result, and no
                \* emitter panics, so no action sets it)
    out         \* the String the call returned

vars == <<wrapper, node, pc, out>>

\* The nodes each emitter struct can wrap (the type of its field).
Wrapped(w) ==
    CASE w = "Access" -> AccessVariantsSet
      [] w = "Expression" -> ExpressionSet
      [] w = "Literals" -> ValueVariantsSet
      [] w = "Singleton" -> SingletonVariantsSet
      [] w = "StringVal" -> StringLiteralSet
      [] w = "SymVal" -> StringLiteralSet
      [] w = "HereDoc" -> HereDocumentVariantsSet
      [] w = "RegularExpression" -> RegularExpressionSet
      [] w = "ArrayVal" -> ArrayLiteralSet
      [] w = "HashVal" -> HashLiteralSet
      [] w = "RangeVal" -> RangeLiteralSet

Wrappers ==
    {"Access", "Expression", "Literals", "Singleton", "StringVal", "SymVal",
     "HereDoc", "RegularExpression", "ArrayVal", "HashVal", "RangeVal"}

Init ==
    /\ pc = "ready"
    /\ out = <<>>
    /\ wrapper \in Wrappers
    /\ node \in Wrapped(wrapper)

\* Return with emit taking the node's payload instead of borrowing it.
Return_taking_node(w, text) ==
    /\ pc = "ready"
    /\ wrapper = w
    /\ out' = text
    /\ pc' = "returned"
    /\ node' = [tag |-> "Moved"]
    /\ UNCHANGED wrapper

\* The call w(&node).emit() returning text.
Return(w, text) ==
    /\ pc = "ready"
    /\ wrapper = w
    /\ out' = text
    /\ pc' = "returned"
    /\ UNCHANGED <<wrapper, node>>

CallAccessEmit == Return("Access", AccessEmit(node))

CallExpressionEmit == Return("Expression", ExpressionEmit(node))

CallLiteralsEmit == Return("Literals", LiteralsEmit(node))

CallSingletonEmit == Return("Singleton", SingletonEmit(node))

CallStringValEmit == Return("StringVal", StringValEmit(node))

CallSymValEmit == Return("SymVal", SymValEmit(node))

CallHereDocEmit == Return("HereDoc", HereDocEmit(node))

CallRegularExpressionEmit ==
    Return("RegularExpression", RegularExpressionEmit(node))

CallArrayValEmit == Return("ArrayVal", ArrayValEmit(node))

CallHashValEmit == Return("HashVal", HashValEmit(node))

CallRangeValEmit == Return("RangeVal", RangeValEmit(node))

Next ==
    \/ CallAccessEmit
    \/ CallExpressionEmit
    \/ CallLiteralsEmit
    \/ CallSingletonEmit
    \/ CallStringValEmit
    \/ CallSymValEmit
    \/ CallHereDocEmit
    \/ CallRegularExpressionEmit
    \/ CallArrayValEmit
    \/ CallHashValEmit
    \/ CallRangeValEmit

Spec == Init /\ [][Next]_vars

(***************************************************************************)
(* Properties.  Expected texts are stated on their own terms (positions    *)
(* in the returned text, parsing it back) and not through the emitters.    *)
(***************************************************************************)
Returned(w) == pc = "returned" /\ wrapper = w

RECURSIVE StartOf(_, _, _)
\* Number of characters before item k when items are laid out in order
\* with sep between consecutive items.
StartOf(items, sep, k) ==
    IF k = 1 THEN 0
    ELSE StartOf(items, sep, k - 1) + Len(items[k - 1]) + Len(sep)

\* text is exactly the items in sequence order, sep between consecutive
\* items and nothing else.
InOrder(text, items, sep) ==
    IF Len(items) = 0 THEN Len(text) = 0
    ELSE /\ Len(text) = StartOf(items, sep, Len(items)) + Len(items[Len(items)])
         /\ \A k \in 1..Len(items) :
                SubSeq(text, StartOf(items, sep, k) + 1,
                       StartOf(items, sep, k) + Len(items[k])) = items[k]
         /\ \A k \in 1..(Len(items) - 1) :
                SubSeq(text, StartOf(items, sep, k) + Len(items[k]) + 1,
                       StartOf(items, sep, k + 1)) = sep

Orderings(n) ==
    {p \in [1..n -> 1..n] : \A a, b \in 1..n : p[a] = p[b] => a = b}

Permuted(v, p) == [k \in 1..Len(v) |-> v[p[k]]]

\* text without its first a and last b characters
Inner(text, a, b) == SubSeq(text, a + 1, Len(text) - b)

\* C1: the access renderer gives, for a constant access, Scoped(segments)
\* as the segment names in sequence order joined by "::", TopLevel(A) as
\* "::A", Unscoped(A) as "A", and File, Line and Encoding as the fixed
\* tokens __FILE__, __LINE__ and __ENCODING__.
C1_ConstantRendering ==
    (Returned("Access") /\ node.tag = "Constant") =>
        LET c == node.c IN
        /\ c.tag = "Scoped" => InOrder(out, c.vc, <<":", ":">>)
        /\ c = [tag |-> "Scoped", vc |-> <<(<<"A">>), (<<"B">>)>>]
                => out = <<"A", ":", ":", "B">>
        /\ c.tag = "TopLevel" =>
                /\ Len(out) = Len(c.c) + 2
                /\ out[1] = ":" /\ out[2] = ":"
                /\ Inner(out, 2, 0) = c.c
        /\ c.tag = "Unscoped" => out = c.c
        /\ c.tag = "File" => out = <<"_", "_", "F", "I", "L", "E", "_", "_">>
        /\ c.tag = "Line" => out = <<"_", "_", "L", "I", "N", "E", "_", "_">>
        /\ c.tag = "Encoding" =>
                out = <<"_", "_", "E", "N", "C", "O", "D", "I", "N", "G", "_", "_">>

\* A scoped constant of two different segments has been rendered.
C1_Witness ==
    /\ Returned("Access")
    /\ node.tag = "Constant"
    /\ node.c.tag = "Scoped"
    /\ Len(node.c.vc) = 2
    /\ node.c.vc[1] # node.c.vc[2]

IdentifierChars == AlphanumericChars \cup {"_"}

QuoteDelimiters == {"\"", "'"}

\* C2: a static symbol payload s made only of identifier characters
\* renders bare as ":" then s (foo_bar gives :foo_bar); a payload with any
\* other character renders as ":" then s enclosed in quote delimiters.
C2_SymbolQuoting ==
    (Returned("Literals") /\ node.tag = "Symbol" /\ node.s.tag = "Static") =>
        LET s == node.s.s IN
        IF \A k \in 1..Len(s) : s[k] \in IdentifierChars
        THEN out = <<":">> \o s
        ELSE \E q \in QuoteDelimiters : out = <<":", q>> \o s \o <<q>>

DecimalDigits == {"0", "1", "2", "3", "4", "5", "6", "7", "8", "9"}

DigitValue(ch) == CHOOSE d \in 0..9 : DigitChar(d) = ch

RECURSIVE DigitsValue(_)
DigitsValue(digits) ==
    IF Len(digits) = 0 THEN 0
    ELSE 10 * DigitsValue(SubSeq(digits, 1, Len(digits) - 1))
            + DigitValue(digits[Len(digits)])

\* text is the decimal text of the integer n: an optional minus sign, then
\* digits without a leading zero, denoting n.
IsDecimalTextOf(text, n) ==
    LET digits == IF Len(text) > 0 /\ text[1] = "-" THEN Tail(text) ELSE text
    IN  /\ Len(digits) > 0
        /\ \A k \in 1..Len(digits) : digits[k] \in DecimalDigits
        /\ Len(digits) > 1 => digits[1] # "0"
        /\ (text[1] = "-") <=> (n < 0)
        /\ DigitsValue(digits) = (IF n < 0 THEN -n ELSE n)

\* C3: a range literal with lower bound a and optional upper bound b
\* renders as the decimal text of a, then ".." for Inclusive or "..." for
\* Exclusive, then the decimal text of b when present and nothing when
\* absent; Inclusive(1, None) gives "1.." and Exclusive(1, Some(5)) gives
\* "1...5".
C3_RangeRendering ==
    (Returned("RangeVal") \/ (Returned("Literals") /\ node.tag = "Range")) =>
        LET r == IF wrapper = "RangeVal" THEN node ELSE node.r
            dots == IF r.tag = "Inclusive" THEN 2 ELSE 3
            firstDot == CHOOSE k \in 1..(Len(out) + 1) :
                            /\ k <= Len(out) => out[k] = "."
                            /\ \A j \in 1..(k - 1) : out[j] # "."
            upper == SubSeq(out, firstDot + dots, Len(out))
        IN  /\ IsDecimalTextOf(SubSeq(out, 1, firstDot - 1), r.i)
            /\ Len(out) >= firstDot + dots - 1
            /\ \A k \in firstDot..(firstDot + dots - 1) : out[k] = "."
            /\ r.si.tag = "None" => Len(upper) = 0
            /\ r.si.tag = "Some" => IsDecimalTextOf(upper, r.si.int)
            /\ r = [tag |-> "Inclusive", i |-> 1, si |-> None]
                    => out = <<"1", ".", ".">>
            /\ r = [tag |-> "Exclusive", i |-> 1, si |-> Some(5)]
                    => out = <<"1", ".", ".", ".", "5">>

\* An endless range with a negative, two-digit lower bound has been
\* rendered.
C3_Witness ==
    /\ Returned("RangeVal")
    /\ node.si.tag = "None"
    /\ node.i < -9

\* C4: the expression renderer returns the rendering of the expression's
\* category: Expression::Literal(l) renders as the literal renderer
\* renders l, Expression::Access(a) as the access renderer renders a.
C4_ExpressionDispatch ==
    Returned("Expression") =>
        /\ node.tag = "Literal" => out = LiteralsEmit(node.l)
        /\ node.tag = "Access" => out = AccessEmit(node.a)

\* The ordered sequence field of a node, when it has one.
HasSequence(w, n) ==
    \/ w = "Access" /\ n.tag = "Constant" /\ n.c.tag = "Scoped"
    \/ w = "ArrayVal" /\ n.tag \in {"Plain", "WithInterpolation"}
    \/ w = "HashVal" /\ n.tag \in {"Plain", "WithInterpolation"}
    \/ w = "StringVal" /\ n.tag = "WithInterpolation"

SequenceOf(w, n) ==
    CASE w = "Access" -> n.c.vc
      [] w = "ArrayVal" -> IF n.tag = "Plain" THEN n.vexp ELSE n.vaip
      [] w = "HashVal" -> IF n.tag = "Plain" THEN n.vh ELSE n.hwp
      [] w = "StringVal" -> n.v

\* The node with its sequence field replaced by v.
WithSequence(w, n, v) ==
    CASE w = "Access" ->
            [tag |-> "Constant", c |-> [tag |-> "Scoped", vc |-> v]]
      [] w = "ArrayVal" ->
            IF n.tag = "Plain" THEN [tag |-> "Plain", vexp |-> v]
            ELSE [tag |-> "WithInterpolation", vaip |-> v]
      [] w = "HashVal" ->
            IF n.tag = "Plain" THEN [tag |-> "Plain", vh |-> v]
            ELSE [tag |-> "WithInterpolation", hwp |-> v]
      [] w = "StringVal" -> [tag |-> "WithInterpolation", v |-> v]

\* What the emitter of wrapper w returns for n, without the delimiters it
\* puts around the items.
Items(w, n) ==
    CASE w = "Access" -> AccessEmit(n)
      [] w = "ArrayVal" -> Inner(ArrayValEmit(n), 1, 1)
      [] w = "HashVal" -> Inner(HashValEmit(n), 2, 2)
      [] w = "StringVal" -> StringValEmit(n)

Separator(w) ==
    CASE w = "Access" -> <<":", ":">>
      [] w \in {"ArrayVal", "HashVal"} -> <<",", " ">>
      [] w = "StringVal" -> <<>>

\* The rendering of item k of the node's sequence: what the emitter gives
\* for the sequence of that one item.
ItemRendering(w, n, k) == Items(w, WithSequence(w, n, <<SequenceOf(w, n)[k]>>))

OutItems(w) ==
    CASE w = "Access" -> out
      [] w = "ArrayVal" -> Inner(out, 1, 1)
      [] w = "HashVal" -> Inner(out, 2, 2)
      [] w = "StringVal" -> out

\* C5: the items of an ordered sequence field (segments of a scoped
\* constant, elements of a plain or interpolated array or hash, segments
\* of an interpolated string) are rendered in sequence order, none
\* dropped, duplicated or moved: the text between the delimiters is the
\* items' renderings in order, and rendering any permutation of the
\* sequence gives the same per-item texts permuted in the same way.
C5_OrderPreserved ==
    (pc = "returned" /\ HasSequence(wrapper, node)) =>
        LET v == SequenceOf(wrapper, node)
            items == [k \in 1..Len(v) |-> ItemRendering(wrapper, node, k)]
        IN  /\ InOrder(OutItems(wrapper), items, Separator(wrapper))
            /\ \A p \in Orderings(Len(v)) :
                    InOrder(Items(wrapper, WithSequence(wrapper, node, Permuted(v, p))),
                            Permuted(items, p), Separator(wrapper))

\* An interpolated array of two items with different, non-empty renderings
\* has been rendered.
C5_Witness ==
    /\ Returned("ArrayVal")
    /\ node.tag = "WithInterpolation"
    /\ Len(node.vaip) = 2
    /\ ItemRendering("ArrayVal", node, 1) # ItemRendering("ArrayVal", node, 2)
    /\ Len(ItemRendering("ArrayVal", node, 1)) > 0
    /\ Len(ItemRendering("ArrayVal", node, 2)) > 0

\* C6: the flag suffix of a rendered regular expression does not depend on
\* the order of the options sequence: a regular expression with the same
\* pattern and the same flags in another order renders to the same text.
C6_FlagOrderFixed ==
    Returned("RegularExpression") =>
        \A p \in Orderings(Len(node.options)) :
            RegularExpressionEmit(
                [expression |-> node.expression,
                 options |-> Permuted(node.options, p)]) = out

\* The rendering of an expression by the renderer of its category.
CategoryRendering(e) ==
    CASE e.tag = "Literal" -> LiteralsEmit(e.l)
      [] e.tag = "Access" -> AccessEmit(e.a)

\* C7: an interpolated payload renders as its segments' contributions in
\* order, a plain string literal segment contributing its own text and
\* every other segment "#{", the segment's rendering, "}"; a static
\* payload contributes its text as stored.
C7_Interpolation ==
    Returned("StringVal") =>
        /\ node.tag = "Static" => out = node.s
        /\ (/\ node.tag = "WithInterpolation"
            /\ \A k \in 1..Len(node.v) : node.v[k].tag \in {"Literal", "Access"})
            => InOrder(out,
                       [k \in 1..Len(node.v) |->
                            IF node.v[k].tag = "Literal" /\ node.v[k].l.tag = "String"
                            THEN StringValEmit(node.v[k].l.s)
                            ELSE <<"#", "{">> \o CategoryRendering(node.v[k])
                                    \o <<"}">>],
                       <<>>)

\* C8: ArrayLiteral::Splat(e) renders as "*" then the rendering of e, and
\* HashLiteral::Splat(e) as "**" then the rendering of e, the hash shape
\* getting no enclosing delimiters that the array shape does not get.
C8_SplatShapes ==
    /\ (Returned("ArrayVal") /\ node.tag = "Splat") =>
            out = <<"*">> \o (IF node.aexp.tag = "Access"
                              THEN AccessEmit(node.aexp.av)
                              ELSE ArrayValEmit(node.aexp.al))
    /\ (Returned("HashVal") /\ node.tag = "Splat") =>
            out = <<"*", "*">> \o (IF node.sxp.tag = "Access"
                                   THEN AccessEmit(node.sxp.acc)
                                   ELSE HashValEmit(node.sxp.hl))

\* C9: the access renderer prefixes an instance variable name with one
\* "@", a class variable name with "@@" and a plain global name with "$";
\* each of the eleven special globals renders as "$" and one character,
\* and no two of them render alike.
C9_VariableSigils ==
    Returned("Access") =>
        /\ node.tag = "InstanceVariable" =>
                /\ Len(out) = Len(node.v) + 1
                /\ out[1] = "@"
                /\ Inner(out, 1, 0) = node.v
        /\ node.tag = "ClassVariable" =>
                /\ Len(out) = Len(node.v) + 2
                /\ out[1] = "@" /\ out[2] = "@"
                /\ Inner(out, 2, 0) = node.v
        /\ (node.tag = "GlobalVariable" /\ node.g.tag = "Plain") =>
                /\ Len(out) = Len(node.g.v) + 1
                /\ out[1] = "$"
                /\ Inner(out, 1, 0) = node.g.v
        /\ (node.tag = "GlobalVariable" /\ node.g.tag \in SpecialGlobalTags) =>
                /\ Len(out) = 2
                /\ out[1] = "$"
                /\ \A t \in SpecialGlobalTags \ {node.g.tag} :
                        AccessEmit([tag |-> "GlobalVariable", g |-> [tag |-> t]]) # out

\* The special global AtSymbol has been rendered.
C9_Witness ==
    /\ Returned("Access")
    /\ node.tag = "GlobalVariable"
    /\ node.g.tag = "AtSymbol"

\* C10: a render that reaches a node kind the renderer does not support
\* ends in an error outcome; no text, empty or otherwise, is returned.
C10_UnsupportedFails ==
    (wrapper = "Expression" /\ node \in OtherExpressions /\ pc # "ready") =>
        pc = "failed"

(***************************************************************************)
(* Rendering a Root.  ast::Root is declared in src/src/ast.rs, but no      *)
(* emitter for it is among the emitters of src/src/emitters; the render    *)
(* of a Root is taken from the specification (sections 2 and 6): the       *)
(* expression renderer applied to each top-level expression in order, the  *)
(* texts joined by a newline.                                              *)
(***************************************************************************)
\* Top-level expressions of the enumerated Roots
RootExpressions == ElementExpressions \cup OtherExpressions

RootSet ==
    {[expressions |-> v] : v \in SeqsUpTo(RootExpressions, MaxLen + 1)}

\* RootEmit with ", " between the expressions.
RootEmit_comma_separated(root) ==
    Join([k \in 1..Len(root.expressions) |-> ExpressionEmit(root.expressions[k])],
         <<",", " ">>)

RootEmit(root) ==
    Join([k \in 1..Len(root.expressions) |-> ExpressionEmit(root.expressions[k])],
         <<"\n">>)

InitRoot ==
    /\ pc = "ready"
    /\ out = <<>>
    /\ wrapper = "Root"
    /\ node \in RootSet

CallRootEmit == Return("Root", RootEmit(node))

NextRoot == CallRootEmit

SpecRoot == InitRoot /\ [][NextRoot]_vars

C12_ScopedNonEmpty ==
    (Returned("Access") /\ node.tag = "Constant" /\ node.c.tag = "Scoped") =>
        /\ Len(node.c.vc) >= 1
        /\ Len(out) > 0

HereDocMarker(t) ==
    CASE t = "Plain" -> <<"<", "<">>
      [] t = "Dash" -> <<"<", "<", "-">>
      [] t = "Squiggly" -> <<"<", "<", "~">>

\* C14: each heredoc variant renders as its opening marker ("<<" for
\* Plain, "<<-" for Dash, "<<~" for Squiggly), the enclosure name, a
\* newline, the document text from the string renderer, a newline and the
\* enclosure name again.
C14_HereDocLayout ==
    Returned("HereDoc") =>
        out = HereDocMarker(node.tag) \o node.enclosure \o <<"\n">>
                \o StringValEmit(node.document) \o <<"\n">> \o node.enclosure

RECURSIVE C15_ElementText(_)
C15_ElementText(e) ==
    CASE e.tag = "Pair" ->
            ExpressionEmit(e.key) \o <<" ", "=", ">", " ">> \o ExpressionEmit(e.value)
      [] e.tag = "WithLabel" ->
            StringValEmit(e.key) \o <<":", " ">> \o ExpressionEmit(e.value)
      [] e.tag = "Element" -> C15_ElementText(e.elt)
      [] e.tag = "Splat" ->
            <<"*", "*">> \o (IF e.exp.tag = "Access" THEN AccessEmit(e.exp.acc)
                             ELSE HashValEmit(e.exp.hl))

\* C15: a Plain or WithInterpolation hash renders as "{", a newline, its
\* elements in sequence order joined by ", ", a newline and "}"; a Pair is
\* the key's rendering, " => ", the value's rendering; a WithLabel is the
\* label text from the string renderer, ": ", the value's rendering; a
\* splat element is "**" and the sub-expression's rendering; no elements
\* give braces around an empty line.
C15_HashLayout ==
    (Returned("HashVal") /\ node.tag \in {"Plain", "WithInterpolation"}) =>
        LET v == IF node.tag = "Plain" THEN node.vh ELSE node.hwp IN
        /\ Len(out) >= 4
        /\ SubSeq(out, 1, 2) = <<"{", "\n">>
        /\ SubSeq(out, Len(out) - 1, Len(out)) = <<"\n", "}">>
        /\ InOrder(Inner(out, 2, 2),
                   [k \in 1..Len(v) |-> C15_ElementText(v[k])],
                   <<",", " ">>)
        /\ Len(v) = 0 => out = <<"{", "\n", "\n", "}">>

\* An interpolated hash holding a labelled element and a splat has been
\* rendered.
C15_Witness ==
    /\ Returned("HashVal")
    /\ node.tag = "WithInterpolation"
    /\ Len(node.hwp) = 2
    /\ node.hwp[1].tag = "Element"
    /\ node.hwp[1].elt.tag = "WithLabel"
    /\ node.hwp[2].tag = "Splat"

=============================================================================
